---------------------------- MODULE Spec2Model ----------------------------
(***************************************************************************)
(* The client-service dashboard data mart (client-service.ipynb): the view *)
(* v_response_first (first response per client, shifted to working time,   *)
(* with the handling time in hours), the view dash_client_service_view     *)
(* (roster LEFT JOIN v_response_first), the table                          *)
(* dash_client_service_table created from it (step 6) and refreshed by     *)
(* TRUNCATE followed by INSERT ... SELECT (step 7).                        *)
(*                                                                         *)
(* A timestamp is the number of minutes since 00:00 of day 0; day 0 is a   *)
(* Thursday.  interval_hours is kept in hundredths of an hour, which is    *)
(* what ROUND(..., 2) leaves.                                              *)
(***************************************************************************)
EXTENDS Integers, FiniteSets, Sequences

VARIABLES
    all_raw,            \* the event log (table all_raw)
    dict_calendar,      \* the business calendar: date_calendar -> is_working
    dict_candidate,     \* the client roster (table dict_candidate)
    table,              \* rows of dash_client_service_table
    v_response_first,   \* rows the view v_response_first returned when last evaluated
    pc,                 \* "setup" (views exist, table not yet), "idle", "truncated"
    outcome,            \* of the latest refresh: "none", "ok", "failed"
    before,             \* rows the table held when the latest refresh started
    loaded,             \* the tables left by the latest successful refreshes in a row (at most 2)
    observed            \* what a consumer's query returned since the latest refresh started

vars == <<all_raw, dict_calendar, dict_candidate, table, v_response_first,
          pc, outcome, before, loaded, observed>>

-----------------------------------------------------------------------------
(* Bounds of the model *)

\* Dates are 0 .. MaxDay (Thursday, Friday, Saturday, Sunday, ...).
MaxDay == 3
\* The largest number of rows of all_raw in the pipeline inputs.
MaxEvents == 2

-----------------------------------------------------------------------------
(* Values *)

\* SQL NULL: a value no timestamp, manager or number of hours takes.
NULL == 1000000 * 1000

OpenTime == 540
CloseTime == 1200
Friday == 5

MinutesPerDay == 24 * 60

Days == 0 .. MaxDay

\* date_request::date, date_request::time, EXTRACT(dow FROM date_request)
DateOf(ts) == ts \div MinutesPerDay
TimeOf(ts) == ts % MinutesPerDay
Dow(ts) == (DateOf(ts) + 4) % 7

\* Step 1: the temporary table source_list
source_list == {"source 1", "source 2", "source 3", "source 4"}

-----------------------------------------------------------------------------
(* Step 2: the first response to each client *)

\* The rows of all_raw that pass the WHERE clause of all_response.
all_response(raw) ==
    {e \in raw : e.action_manager = "response" /\ e.source_client \in source_list}

\* ORDER BY date_response ASC: a sorts strictly before b (NULLs sort last).
SortsBefore(a, b) ==
    /\ a.date_response # NULL
    /\ (b.date_response = NULL \/ a.date_response < b.date_response)

\* The rows that ROW_NUMBER() may number 1 in the partition of client c:
\* rows of the partition that no other row sorts strictly before.  Rows
\* that tie on date_response may be numbered in either order.
MayBeFirst(raw, c) ==
    LET part == {e \in all_response(raw) : e.id_client = c}
    IN  {e \in part : \A o \in part : ~SortsBefore(o, e)}

\* first_response with the ORDER BY of the window lost: any row of a
\* partition may be numbered 1.
first_response_unordered(raw) ==
    LET clients == {e.id_client : e \in all_response(raw)}
    IN  {S \in SUBSET all_response(raw) :
            \A c \in clients : Cardinality({e \in S : e.id_client = c}) = 1}

\* The possible results of first_response (WHERE rn = 1): one row of each
\* non-empty partition.
first_response(raw) ==
    LET clients == {e.id_client : e \in all_response(raw)}
    IN  {S \in SUBSET all_response(raw) :
            \A c \in clients :
                /\ Cardinality({e \in S : e.id_client = c}) = 1
                /\ \A e \in S : e.id_client = c => e \in MayBeFirst(raw, c)}

-----------------------------------------------------------------------------
(* Step 3: shifting the request to working time *)

\* LEFT JOIN dict_calendar dc ON fr.date_req = dc.date_calendar: dc.is_working,
\* NULL when the date has no row.
is_working(cal, d) == IF d \in DOMAIN cal THEN cal[d] ELSE NULL

\* SELECT MIN(dc.date_calendar) FROM dict_calendar dc
\*  WHERE dc.date_calendar > fr.date_req AND dc.is_working = 1
MinWorkingAfter(cal, d) ==
    LET later == {x \in DOMAIN cal : x > d /\ cal[x] = 1}
    IN  IF later = {} THEN NULL
        ELSE CHOOSE x \in later : \A y \in later : x <= y

\* date + interval; NULL + interval is NULL.
PlusMinutes(d, m) == IF d = NULL THEN NULL ELSE d * MinutesPerDay + m

\* The CASE expression with the third WHEN moving the request to the next
\* working date, as the first does, instead of the next calendar date.
date_registration_next_working(cal, ts) ==
    LET w == is_working(cal, DateOf(ts))
        d == DateOf(ts)
        t == TimeOf(ts)
    IN  IF w = 0 \/ (w = 1 /\ Dow(ts) = Friday /\ t > CloseTime)
          THEN PlusMinutes(MinWorkingAfter(cal, d), OpenTime)
        ELSE IF w = 1 /\ t < OpenTime
          THEN PlusMinutes(d, OpenTime)
        ELSE IF w = 1 /\ Dow(ts) # Friday /\ t > CloseTime
          THEN PlusMinutes(MinWorkingAfter(cal, d), OpenTime)
        ELSE ts

\* The CASE expression of shift_request.  A comparison with a NULL
\* is_working is not true, so no WHEN that tests it matches.
date_registration(cal, ts) ==
    LET w == is_working(cal, DateOf(ts))
        d == DateOf(ts)
        t == TimeOf(ts)
    IN  IF w = 0 \/ (w = 1 /\ Dow(ts) = Friday /\ t > CloseTime)
          THEN PlusMinutes(MinWorkingAfter(cal, d), OpenTime)
        ELSE IF w = 1 /\ t < OpenTime
          THEN PlusMinutes(d, OpenTime)
        ELSE IF w = 1 /\ Dow(ts) # Friday /\ t > CloseTime
          THEN PlusMinutes(d, MinutesPerDay + OpenTime)
        ELSE ts

-----------------------------------------------------------------------------
(* Step 4: the handling time *)

\* ROUND(x / 3600, 2) for x seconds, in hundredths of an hour: numeric
\* ROUND rounds half away from zero.
RoundHours(sec) ==
    IF sec >= 0 THEN (2 * sec + 36) \div 72
    ELSE 0 - ((2 * (0 - sec) + 36) \div 72)

\* The handling time with the operands of the subtraction exchanged.
interval_hours_exchanged(resp, reg) ==
    IF resp = NULL \/ reg = NULL THEN NULL
    ELSE RoundHours((reg - resp) * 60)

\* ROUND(EXTRACT(EPOCH FROM date_response - date_registration) / 3600, 2)
interval_hours(resp, reg) ==
    IF resp = NULL \/ reg = NULL THEN NULL
    ELSE RoundHours((resp - reg) * 60)

\* One row of shift_request with interval_hours added.
ShiftRow(cal, fr) ==
    LET reg == date_registration(cal, fr.date_request)
    IN  [id_client         |-> fr.id_client,
         manager           |-> fr.manager,
         date_request      |-> fr.date_request,
         date_response     |-> fr.date_response,
         date_registration |-> reg,
         interval_hours    |-> interval_hours(fr.date_response, reg)]

\* The possible results of SELECT * FROM v_response_first.
ViewResponseFirst(raw, cal) ==
    {{ShiftRow(cal, fr) : fr \in S} : S \in first_response(raw)}

-----------------------------------------------------------------------------
(* Step 5: the view of the dashboard *)

\* The row of dash_client_service_view for roster row dc joined with the
\* rows vrf of v_response_first (LEFT JOIN ... ON vrf.id_client = dc."ID").
DashRows(dc, vrf) ==
    LET m == {r \in vrf : r.id_client = dc.ID}
    IN  IF m = {}
        THEN {[id_client         |-> dc.id_client,
               response_status   |-> "wait",
               date_request      |-> dc.date_request,
               date_registration |-> NULL,
               date_response     |-> NULL,
               interval_hours    |-> NULL,
               manager           |-> NULL]}
        ELSE {[id_client         |-> dc.id_client,
               response_status   |-> IF r.date_response = NULL THEN "wait" ELSE "done",
               date_request      |-> dc.date_request,
               date_registration |-> r.date_registration,
               date_response     |-> r.date_response,
               interval_hours    |-> r.interval_hours,
               manager           |-> r.manager] : r \in m}

\* The view without its WHERE clause: a row for every client of the roster.
dash_client_service_view_unfiltered(roster, vrf) ==
    UNION {DashRows(dc, vrf) : dc \in roster}

\* WHERE dc.source_client IN (SELECT name_source FROM source_list)
dash_client_service_view(roster, vrf) ==
    UNION {DashRows(dc, vrf) : dc \in {x \in roster : x.source_client \in source_list}}

-----------------------------------------------------------------------------
(* The inputs: what the tables hold when the script runs *)

Event(c, req, resp, m, action, source) ==
    [id_client      |-> c,
     date_request   |-> req,
     date_response  |-> resp,
     manager        |-> m,
     action_manager |-> action,
     source_client  |-> source]

Candidate(id, source) ==
    [ID |-> id, id_client |-> id, source_client |-> source, date_request |-> 14 * 60]

\* Every calendar over Days: a date has no row, or is_working 0 or 1.
Calendars == UNION {[D -> {0, 1}] : D \in SUBSET Days}

\* Times of day: 08:10, 09:00, 14:00, 20:00, 21:30.
TimesOfDay == {8 * 60 + 10, 9 * 60, 14 * 60, 20 * 60, 21 * 60 + 30}
RequestTimes == {d * MinutesPerDay + t : d \in Days, t \in TimesOfDay}
\* No response yet, or one at 16:31 of the first or of the last day.
ResponseTimes == {NULL, 16 * 60 + 31, MaxDay * MinutesPerDay + 16 * 60 + 31}

\* Inputs that exercise the calendar: one client of the roster with one
\* response on record, any request time, any calendar.
CalendarInputs ==
    {[all_raw        |-> {Event(1, req, resp, 1, "response", "source 1")},
      dict_calendar  |-> cal,
      dict_candidate |-> {Candidate(1, "source 1")}] :
        req \in RequestTimes, resp \in ResponseTimes, cal \in Calendars}

\* Inputs that exercise the event log and the roster: up to MaxEvents
\* events of two clients, requested on Thursday 14:00 (a working day).
LogEvents ==
    {Event(c, 14 * 60, resp, m, k[1], k[2]) :
        c \in {1, 2}, resp \in {NULL, 16 * 60 + 31, MinutesPerDay + 16 * 60 + 31},
        m \in {1, 2},
        k \in {<<"response", "source 1">>, <<"response", "other">>, <<"call", "source 1">>}}

RECURSIVE EventSets(_)
EventSets(n) ==
    IF n = 0 THEN {{}}
    ELSE LET smaller == EventSets(n - 1)
         IN  smaller \cup {S \cup {e} : S \in smaller, e \in LogEvents}

\* A roster holds each client at most once.  Clients 3 and 4 have no event.
Rosters ==
    {{}, {Candidate(1, "source 1")}, {Candidate(2, "source 1")},
     {Candidate(1, "source 1"), Candidate(2, "other")},
     {Candidate(1, "source 1"), Candidate(2, "source 1"),
      Candidate(3, "source 2"), Candidate(4, "other")}}

LogInputs ==
    {[all_raw        |-> raw,
      dict_calendar  |-> [d \in Days |-> 1],
      dict_candidate |-> roster] :
        raw \in EventSets(MaxEvents), roster \in Rosters}

-----------------------------------------------------------------------------
(* The script *)

\* Steps 1 to 5 are done: the views exist, the table does not yet.
Init ==
    /\ \E inp \in CalendarInputs \cup LogInputs :
          /\ all_raw = inp.all_raw
          /\ dict_calendar = inp.dict_calendar
          /\ dict_candidate = inp.dict_candidate
    /\ table = {}
    /\ v_response_first = {}
    /\ pc = "setup"
    /\ outcome = "none"
    /\ before = {}
    /\ loaded = << >>
    /\ observed = << >>

\* Step 6: CREATE TABLE dash_client_service_table AS SELECT * FROM dash_client_service_view
CreateTable ==
    /\ pc = "setup"
    /\ \E vrf \in ViewResponseFirst(all_raw, dict_calendar) :
          /\ v_response_first' = vrf
          /\ table' = dash_client_service_view(dict_candidate, vrf)
    /\ pc' = "idle"
    /\ UNCHANGED <<all_raw, dict_calendar, dict_candidate, outcome, before, loaded, observed>>

\* Step 7, first statement: TRUNCATE TABLE dash_client_service_table.  The
\* script opens no transaction, so the statement commits on its own.
Truncate ==
    /\ pc = "idle"
    /\ before' = table
    /\ table' = {}
    /\ pc' = "truncated"
    /\ outcome' = "none"
    /\ observed' = << >>
    /\ UNCHANGED <<all_raw, dict_calendar, dict_candidate, v_response_first, loaded>>

\* The tables of the latest successful refreshes in a row, the latest two kept.
Remember(h, t) == IF Len(h) < 2 THEN Append(h, t) ELSE <<h[2], t>>

\* Step 7, second statement: INSERT INTO dash_client_service_table
\* SELECT * FROM dash_client_service_view.
Insert ==
    /\ pc = "truncated"
    /\ \E vrf \in ViewResponseFirst(all_raw, dict_calendar) :
          /\ v_response_first' = vrf
          /\ table' = table \cup dash_client_service_view(dict_candidate, vrf)
    /\ pc' = "idle"
    /\ outcome' = "ok"
    /\ loaded' = Remember(loaded, table')
    /\ UNCHANGED <<all_raw, dict_calendar, dict_candidate, before, observed>>

\* The INSERT statement raises an error (a source table is unreachable, the
\* connection is lost): it inserts nothing, and the script ends.
InsertFails ==
    /\ pc = "truncated"
    /\ pc' = "idle"
    /\ outcome' = "failed"
    /\ loaded' = << >>
    /\ UNCHANGED <<all_raw, dict_calendar, dict_candidate, table, v_response_first,
                   before, observed>>

\* A consumer (the dashboard) queries the table.
Read ==
    /\ pc # "setup"
    /\ observed' = <<table>>
    /\ UNCHANGED <<all_raw, dict_calendar, dict_candidate, table, v_response_first,
                   pc, outcome, before, loaded>>

Next == CreateTable \/ Truncate \/ Insert \/ InsertFails \/ Read

Spec == Init /\ [][Next]_vars

-----------------------------------------------------------------------------
(* What the claims speak of *)

\* The table holds the result of a load: it was created or refreshed, and
\* no refresh is under way or has failed since.
Loaded == pc = "idle" /\ outcome # "failed"

\* The events of client c that qualify: a response, from an allowed channel.
Qualifying(c) ==
    {e \in all_raw : /\ e.id_client = c
                     /\ e.action_manager = "response"
                     /\ e.source_client \in source_list}

ClientIds == {e.id_client : e \in all_raw} \cup {x.ID : x \in dict_candidate}

\* The calendar says date d is a working day / has a row for d.
HasEntry(d) == d \in DOMAIN dict_calendar
Working(d) == HasEntry(d) /\ dict_calendar[d] = 1

\* n is the first working date strictly after d.
NextWorking(d, n) ==
    /\ n > d
    /\ Working(n)
    /\ \A x \in Days : (x > d /\ x < n) => ~Working(x)

Exhausted(d) == \A x \in DOMAIN dict_calendar : x > d => ~Working(x)

At0900(d) == d * MinutesPerDay + OpenTime

\* C1: a consumer that queries the table during or after a refresh gets the
\* complete rows from before the refresh or the complete newly loaded rows.
C1_RefreshIsAtomic ==
    observed # << >> =>
        \/ observed[1] = before
        \/ Loaded /\ observed[1] = table

\* C2: after a failed refresh the table holds the rows it held before that
\* refresh started.
C2_FailedRefreshKeepsRows == outcome = "failed" => table = before

\* C3: a request on a date without a calendar row is registered at 09:00 of
\* the next working date (here: when such a date exists).
C3_MissingDateIsNonWorking ==
    \A r \in v_response_first :
        \A n \in Days :
            (~HasEntry(DateOf(r.date_request)) /\ NextWorking(DateOf(r.date_request), n))
                => r.date_registration = At0900(n)

\* C4: when rule 1 applies (a non-working date, or a working Friday after
\* 20:00) and no working date follows, no record with a null
\* registration_timestamp is produced.
C4_CalendarExhaustedIsSignalled ==
    \A r \in v_response_first :
        LET d == DateOf(r.date_request)
        IN  (/\ HasEntry(d)
             /\ \/ ~Working(d)
                \/ Dow(r.date_request) = Friday /\ TimeOf(r.date_request) > CloseTime
             /\ Exhausted(d))
                => r.date_registration # NULL

\* C5: registration_timestamp >= request_timestamp in every record.
C5_RegistrationNotBeforeRequest ==
    \A r \in v_response_first :
        r.date_registration # NULL /\ r.date_registration >= r.date_request

\* The earliest response_timestamp among the events E (NULL when none of
\* them has one).
Earliest(E) ==
    LET known == {e.date_response : e \in E} \ {NULL}
    IN  IF known = {} THEN NULL
        ELSE CHOOSE t \in known : \A u \in known : t <= u

\* C6: once the view has been evaluated, every client with a qualifying
\* event has exactly one first-response record, taken from one of its
\* qualifying events and carrying the earliest response_timestamp among
\* them; a client without a qualifying event has none.
C6_OneFirstResponsePerClient ==
    pc # "setup" =>
        \A c \in ClientIds :
            LET rows == {r \in v_response_first : r.id_client = c}
            IN  IF Qualifying(c) = {}
                THEN rows = {}
                ELSE /\ Cardinality(rows) = 1
                     /\ \A r \in rows :
                           /\ r.date_response = Earliest(Qualifying(c))
                           /\ \E e \in Qualifying(c) :
                                 /\ e.date_response = r.date_response
                                 /\ e.manager = r.manager
                                 /\ e.date_request = r.date_request

\* Two qualifying events of one client tie on the earliest response and
\* differ in manager, and the view returned one record for the client.
C6_Witness ==
    /\ pc # "setup"
    /\ \E e1, e2 \in Qualifying(1) :
          /\ e1.manager # e2.manager
          /\ e1.date_response = e2.date_response
          /\ e1.date_response # NULL
    /\ Cardinality({r \in v_response_first : r.id_client = 1}) = 1

\* C7: two refreshes in a row (the inputs never change) leave the same table.
C7_RefreshIsIdempotent == Len(loaded) = 2 => loaded[1] = loaded[2]

\* C8: for a request whose date has a calendar row and is followed by a
\* working date, registration_timestamp follows the four rules.
C8_FourRules ==
    \A r \in v_response_first :
        LET ts == r.date_request
            d == DateOf(ts)
            t == TimeOf(ts)
            fri == Dow(ts) = Friday
            reg == r.date_registration
        IN  (HasEntry(d) /\ ~Exhausted(d)) =>
               \* rule 1
               /\ (~Working(d) \/ (fri /\ t > CloseTime)) =>
                      \E n \in Days : NextWorking(d, n) /\ reg = At0900(n)
               \* rule 2
               /\ (Working(d) /\ t < OpenTime) => reg = At0900(d)
               \* rule 3
               /\ (Working(d) /\ ~fri /\ t > CloseTime) => reg = At0900(d + 1)
               \* rule 4
               /\ (Working(d) /\ t >= OpenTime /\ t <= CloseTime) => reg = ts

\* A request on a working Friday after 20:00 was registered at 09:00 two
\* days later: the Saturday has a calendar row and is not a working day.
C8_Witness ==
    \E r \in v_response_first :
        LET d == DateOf(r.date_request)
        IN  /\ Working(d)
            /\ Dow(r.date_request) = Friday
            /\ TimeOf(r.date_request) > CloseTime
            /\ HasEntry(d + 1) /\ ~Working(d + 1)
            /\ r.date_registration = At0900(d + 2)

\* C9 as stated: after a load the table has exactly one row per roster
\* client of an allowed channel and no other row; a row is waiting, with
\* null response, registration, hours and manager, exactly when the client
\* has no first response, and done otherwise.
C9_AsStated ==
    Loaded =>
        /\ {row.id_client : row \in table}
              = {x.ID : x \in {y \in dict_candidate : y.source_client \in source_list}}
        /\ \A row \in table :
              /\ Cardinality({o \in table : o.id_client = row.id_client}) = 1
              /\ row.response_status = "wait" <=> Qualifying(row.id_client) = {}
              /\ row.response_status = "wait" =>
                    /\ row.date_response = NULL
                    /\ row.date_registration = NULL
                    /\ row.interval_hours = NULL
                    /\ row.manager = NULL
              /\ row.response_status \in {"wait", "done"}

\* C9, amended: a row is waiting exactly when the client has no first
\* response or its first-response record has no response_timestamp; its
\* response and hours are then null, and its registration and manager are
\* null when the client has no first-response record at all.
C9_OneRowPerRosterClient ==
    Loaded =>
        /\ {row.id_client : row \in table}
              = {x.ID : x \in {y \in dict_candidate : y.source_client \in source_list}}
        /\ \A row \in table :
              /\ Cardinality({o \in table : o.id_client = row.id_client}) = 1
              /\ row.response_status = "wait" <=>
                    (Qualifying(row.id_client) = {}
                        \/ Earliest(Qualifying(row.id_client)) = NULL)
              /\ row.response_status = "wait" =>
                    /\ row.date_response = NULL
                    /\ row.interval_hours = NULL
              /\ Qualifying(row.id_client) = {} =>
                    /\ row.response_status = "wait"
                    /\ row.date_registration = NULL
                    /\ row.manager = NULL
              /\ row.response_status \in {"wait", "done"}
              /\ row.response_status = "done" => row.date_response # NULL

\* A refresh loaded a done row, a waiting row of a client without a first
\* response and a waiting row of a client whose first-response record has no
\* response_timestamp, while the roster also holds a client of another
\* channel.
C9_Witness ==
    /\ Loaded
    /\ outcome = "ok"
    /\ \E row \in table : row.response_status = "done"
    /\ \E row \in table : row.response_status = "wait" /\ row.manager = NULL
    /\ \E row \in table : row.response_status = "wait" /\ row.manager # NULL
    /\ \E x \in dict_candidate : x.source_client \notin source_list

\* C10: elapsed_hours is null when response_timestamp is absent; otherwise
\* it is (response - registration) in seconds over 3600, to the nearest
\* hundredth, and it is not negative when response >= registration.
C10_ElapsedHours ==
    /\ \A row \in table : row.date_response = NULL => row.interval_hours = NULL
    /\ \A r \in v_response_first :
          /\ r.date_response = NULL => r.interval_hours = NULL
          /\ (r.date_response # NULL /\ r.date_registration # NULL) =>
                LET sec == (r.date_response - r.date_registration) * 60
                    off == 36 * r.interval_hours - sec
                IN  /\ r.interval_hours # NULL
                    /\ off <= 18 /\ 0 - off <= 18
                    /\ r.date_response >= r.date_registration => r.interval_hours >= 0

\* A request of 14:00 answered at 16:31 the same day: 2.52 hours.
C10_Witness ==
    \E r \in v_response_first :
        /\ r.date_registration # NULL
        /\ r.date_response = r.date_registration + 151
        /\ r.interval_hours = 252

=============================================================================
